---- MODULE Spec2Model ----
(***************************************************************************)
(* TravelCal: the App component (state, event handlers, rendered controls)  *)
(* and the settlement computation of its useMemo.                           *)
(*                                                                          *)
(* Texts (ids, names, the amount field) are sequences of one-character      *)
(* strings, so that trim, parseFloat and toString are computed.             *)
(*                                                                          *)
(* Numbers of the settlement computation are exact rationals held as        *)
(* integers in units of 1/participantCount: the field `balance` of a        *)
(* working record holds participantCount * (paid - average), the amount of  *)
(* a settlement holds participantCount * amount, and the tolerance 1 is     *)
(* participantCount units.  IEEE rounding is not modelled.                  *)
(***************************************************************************)
EXTENDS Integers, Sequences, FiniteSets

VARIABLES
    step,              \* useState<1|2|3>(1)
    participants,      \* useState<Participant[]>([])
    expenses,          \* useState<Expense[]>([])
    newExpensePayer,   \* useState('')
    now,               \* the last value Date.now() returned
    pc,                \* position in the settlement computation
    balances,          \* its working array
    results,           \* its result array
    loopCount,         \* its loop counter
    previous           \* what earlier calls of the computation returned

vars == <<step, participants, expenses, newExpensePayer, now,
          pc, balances, results, loopCount, previous>>

uiVars == <<step, participants, expenses, newExpensePayer, now>>
calcVars == <<pc, balances, results, loopCount, previous>>

-----------------------------------------------------------------------------
(* Bounds of the model *)

\* Date.now() is read at most MaxTime times in a behaviour of the UI
MaxTime == 5
\* the participant lists the computation is started on hold at most this many
MaxParticipants == 3
\* the expense lists the computation is started on hold at most this many
MaxExpenses == 2
\* the expense amounts the computation is started on are 1..MaxAmount
MaxAmount == 2
\* the wider range of amounts, 1..MaxWideAmount, of SpecCalcWide
MaxWideAmount == 3

-----------------------------------------------------------------------------
(* Text helpers.  Array.prototype.filter is SelectSeq.                     *)

Digits == <<"0", "1", "2", "3", "4", "5", "6", "7", "8", "9">>

IsDigit(c) == \E i \in 1..10 : Digits[i] = c

DigitVal(c) == (CHOOSE i \in 1..10 : Digits[i] = c) - 1

IsSpace(c) == c = " "

RECURSIVE TrimStart(_)
TrimStart(s) ==
    IF s # <<>> /\ IsSpace(Head(s)) THEN TrimStart(Tail(s)) ELSE s

RECURSIVE TrimEnd(_)
TrimEnd(s) ==
    IF s # <<>> /\ IsSpace(s[Len(s)]) THEN TrimEnd(SubSeq(s, 1, Len(s) - 1)) ELSE s

\* String.prototype.trim
trim(s) == TrimEnd(TrimStart(s))

\* Number.prototype.toString of a natural number
RECURSIVE toString(_)
toString(n) ==
    IF n < 10 THEN <<Digits[n + 1]>>
    ELSE toString(n \div 10) \o <<Digits[(n % 10) + 1]>>

\* the longest prefix of s made of digits
RECURSIVE DigitPrefix(_)
DigitPrefix(s) ==
    IF s # <<>> /\ IsDigit(Head(s)) THEN <<Head(s)>> \o DigitPrefix(Tail(s)) ELSE <<>>

RECURSIVE DigitsValue(_)
DigitsValue(ds) ==
    IF ds = <<>> THEN 0
    ELSE 10 * DigitsValue(SubSeq(ds, 1, Len(ds) - 1)) + DigitVal(ds[Len(ds)])

NaN == [nan |-> TRUE, val |-> 0]

\* parseFloat on texts without "." and exponent: leading white space is
\* skipped, an optional sign and the longest run of digits are read, what
\* follows is ignored; no digit gives NaN.
parseFloat(text) ==
    LET s == TrimStart(text)
        signed == s # <<>> /\ Head(s) \in {"-", "+"}
        body == IF signed THEN Tail(s) ELSE s
        ds == DigitPrefix(body)
    IN  IF ds = <<>> THEN NaN
        ELSE [nan |-> FALSE,
              val |-> IF signed /\ Head(s) = "-" THEN 0 - DigitsValue(ds)
                      ELSE DigitsValue(ds)]

isNaN(x) == x.nan

-----------------------------------------------------------------------------
(* Inputs of the event handlers *)

\* contents of the name field when Add is pressed
NameTexts == { <<>>, <<" ">>, <<"A">>, <<" ", "B", " ">> }

\* contents of the amount field when + Add is pressed
AmountTexts == { <<>>, <<"a">>, <<"0">>, <<"-", "2">>, <<"3">>, <<" ", "6", "a">> }

ParticipantIds == { participants[i].id : i \in 1..Len(participants) }

-----------------------------------------------------------------------------
(* Event handlers of the UI.  A handler is enabled when the control that    *)
(* calls it is rendered.                                                    *)

\* Date.now(): the handlers run on separate user events, and the clock has
\* advanced since it was last read, so every id is new
DateNow == now + 1

addParticipant(newName) ==
    /\ step = 1
    /\ now < MaxTime
    /\ trim(newName) # <<>>
    /\ now' = DateNow
    /\ participants' = Append(participants, [id |-> toString(now'), name |-> trim(newName)])
    /\ UNCHANGED <<step, expenses, newExpensePayer, calcVars>>

removeParticipant(id) ==
    /\ step = 1
    /\ id \in ParticipantIds
    /\ participants' = SelectSeq(participants, LAMBDA p : p.id # id)
    /\ UNCHANGED <<step, expenses, newExpensePayer, now, calcVars>>

\* mutant: no check of participants.length < 2
startExpenseEntryNoGuard ==
    /\ step = 1
    /\ Len(participants) > 0
    /\ newExpensePayer' = IF newExpensePayer = <<>> THEN participants[1].id
                          ELSE newExpensePayer
    /\ step' = 2
    /\ UNCHANGED <<participants, expenses, now, calcVars>>

startExpenseEntry ==
    /\ step = 1
    /\ Len(participants) > 0
    /\ IF Len(participants) < 2
       THEN UNCHANGED <<step, newExpensePayer>>
       ELSE /\ newExpensePayer' = IF newExpensePayer = <<>> THEN participants[1].id
                                  ELSE newExpensePayer
            /\ step' = 2
    /\ UNCHANGED <<participants, expenses, now, calcVars>>

\* the payer select's onChange
selectPayer(id) ==
    /\ step = 2
    /\ id \in ParticipantIds
    /\ newExpensePayer' = id
    /\ UNCHANGED <<step, participants, expenses, now, calcVars>>

\* mutant: an amount that is not positive is accepted
addExpenseNoPositiveCheck(newExpenseAmount) ==
    /\ step = 2
    /\ LET amount == parseFloat(newExpenseAmount)
       IN  IF newExpensePayer = <<>> \/ isNaN(amount)
           THEN UNCHANGED <<expenses, now>>
           ELSE /\ now < MaxTime
                /\ now' = DateNow
                /\ expenses' = Append(expenses,
                                      [id |-> toString(now'),
                                       payerId |-> newExpensePayer,
                                       amount |-> amount.val])
    /\ UNCHANGED <<step, participants, newExpensePayer, calcVars>>

addExpense(newExpenseAmount) ==
    /\ step = 2
    /\ LET amount == parseFloat(newExpenseAmount)
       IN  IF newExpensePayer = <<>> \/ isNaN(amount) \/ amount.val <= 0
           THEN UNCHANGED <<expenses, now>>
           ELSE /\ now < MaxTime
                /\ now' = DateNow
                /\ expenses' = Append(expenses,
                                      [id |-> toString(now'),
                                       payerId |-> newExpensePayer,
                                       amount |-> amount.val])
    /\ UNCHANGED <<step, participants, newExpensePayer, calcVars>>

removeExpense(id) ==
    /\ step = 2
    /\ \E i \in 1..Len(expenses) : expenses[i].id = id
    /\ expenses' = SelectSeq(expenses, LAMBDA e : e.id # id)
    /\ UNCHANGED <<step, participants, newExpensePayer, now, calcVars>>

Back ==
    /\ step = 2
    /\ step' = 1
    /\ UNCHANGED <<participants, expenses, newExpensePayer, now, calcVars>>

calculateSettlement ==
    /\ step = 2
    /\ expenses # <<>>
    /\ step' = 3
    /\ UNCHANGED <<participants, expenses, newExpensePayer, now, calcVars>>

EditExpenses ==
    /\ step = 3
    /\ step' = 2
    /\ UNCHANGED <<participants, expenses, newExpensePayer, now, calcVars>>

ResetAll(confirmed) ==
    /\ step = 3
    /\ IF confirmed
       THEN /\ participants' = <<>>
            /\ expenses' = <<>>
            /\ step' = 1
       ELSE UNCHANGED <<participants, expenses, step>>
    /\ UNCHANGED <<newExpensePayer, now, calcVars>>

Init ==
    /\ step = 1
    /\ participants = <<>>
    /\ expenses = <<>>
    /\ newExpensePayer = <<>>
    /\ now = 0
    /\ pc = "idle"
    /\ balances = <<>>
    /\ results = <<>>
    /\ loopCount = 0
    /\ previous = <<>>

Next ==
    \/ \E newName \in NameTexts : addParticipant(newName)
    \/ \E id \in ParticipantIds : removeParticipant(id)
    \/ startExpenseEntry
    \/ \E id \in ParticipantIds : selectPayer(id)
    \/ \E text \in AmountTexts : addExpense(text)
    \/ \E id \in { expenses[i].id : i \in 1..Len(expenses) } : removeExpense(id)
    \/ Back
    \/ calculateSettlement
    \/ EditExpenses
    \/ \E confirmed \in BOOLEAN : ResetAll(confirmed)

Spec == Init /\ [][Next]_vars

-----------------------------------------------------------------------------
(* The settlement computation (the useMemo callback).                       *)

\* the iteration ceiling of the while loop
LoopLimit == 100

\* the tolerance of the stop condition, in whole units
Tolerance == 1

Abs(x) == IF x < 0 THEN 0 - x ELSE x

Min(x, y) == IF x < y THEN x ELSE y

\* expenses.reduce((sum, e) => sum + e.amount, 0)
RECURSIVE SumAmounts(_)
SumAmounts(es) ==
    IF es = <<>> THEN 0 ELSE SumAmounts(SubSeq(es, 1, Len(es) - 1)) + es[Len(es)].amount

\* mutant: only the expenses of participants are summed
totalSpentAttributed ==
    SumAmounts(SelectSeq(expenses, LAMBDA e : e.payerId \in ParticipantIds))

totalSpent == SumAmounts(expenses)

participantCount == Len(participants)

\* expenses.filter(e => e.payerId === p.id).reduce(...)
Paid(id) == SumAmounts(SelectSeq(expenses, LAMBDA e : e.payerId = id))

\* paid - average, in units of 1/participantCount
InitialBalance(id) == participantCount * Paid(id) - totalSpent

\* participants.map(p => ({...p, paid, balance: paid - average}))
InitialBalances ==
    [i \in 1..participantCount |->
        [id |-> participants[i].id,
         name |-> participants[i].name,
         paid |-> participantCount * Paid(participants[i].id),
         balance |-> InitialBalance(participants[i].id)]]

\* mutant: the first position may be given to a record that is not a
\* smallest
sortFirstAnywhere(bs) ==
    { dc \in (1..Len(bs)) \X (1..Len(bs)) :
        /\ \A j \in 1..Len(bs) : bs[j].balance <= bs[dc[2]].balance
        /\ (dc[1] # dc[2] \/ Len(bs) = 1) }

\* balances.sort((a, b) => a.balance - b.balance); debtor = balances[0];
\* creditor = balances[balances.length - 1].  The working records are held
\* at their participants' indices, and the sort is represented by the places
\* it gives the first and the last position: <<d, c>> with balances[d] a
\* smallest and balances[c] a largest balance, different records unless the
\* array holds one.  The order of equal balances is the engine's, so every
\* such pair is a possible result, and the order one pass leaves behind
\* does not constrain the next.
sort(bs) ==
    { dc \in (1..Len(bs)) \X (1..Len(bs)) :
        /\ \A j \in 1..Len(bs) : bs[dc[1]].balance <= bs[j].balance
        /\ \A j \in 1..Len(bs) : bs[j].balance <= bs[dc[2]].balance
        /\ (dc[1] # dc[2] \/ Len(bs) = 1) }

\* mutant: the balances are tested for being exactly 0
IsSettledExact(debtor, creditor) ==
    /\ debtor.balance = 0
    /\ creditor.balance = 0

\* mutant: || for &&
IsSettledEither(debtor, creditor) ==
    \/ Abs(debtor.balance) < Tolerance * participantCount
    \/ Abs(creditor.balance) < Tolerance * participantCount

\* Math.abs(debtor.balance) < 1 && Math.abs(creditor.balance) < 1
IsSettled(debtor, creditor) ==
    /\ Abs(debtor.balance) < Tolerance * participantCount
    /\ Abs(creditor.balance) < Tolerance * participantCount

\* mutant: a pass transfers half of the matched amount
TransferAmountHalf(debtor, creditor) ==
    (Min(Abs(debtor.balance), creditor.balance) + 1) \div 2

\* mutant: the debtor's whole debt is transferred
TransferAmountWholeDebt(debtor, creditor) == Abs(debtor.balance)

\* mutant: Math.max for Math.min
TransferAmountMax(debtor, creditor) ==
    IF Abs(debtor.balance) > creditor.balance THEN Abs(debtor.balance)
    ELSE creditor.balance

\* Math.min(Math.abs(debtor.balance), creditor.balance)
TransferAmount(debtor, creditor) == Min(Abs(debtor.balance), creditor.balance)

\* mutant: fromId and toId exchanged
PushSwapped(rs, debtor, creditor, amount) ==
    IF amount > 0
    THEN Append(rs, [fromId |-> creditor.id, toId |-> debtor.id, amount |-> amount])
    ELSE rs

\* mutant: unshift for push
PushInFront(rs, debtor, creditor, amount) ==
    IF amount > 0
    THEN <<[fromId |-> debtor.id, toId |-> creditor.id, amount |-> amount]>> \o rs
    ELSE rs

\* mutant: the push is not guarded by amount > 0
PushAlways(rs, debtor, creditor, amount) ==
    Append(rs, [fromId |-> debtor.id, toId |-> creditor.id, amount |-> amount])

\* if (amount > 0) results.push({fromId, toId, amount})
Push(rs, debtor, creditor, amount) ==
    IF amount > 0
    THEN Append(rs, [fromId |-> debtor.id, toId |-> creditor.id, amount |-> amount])
    ELSE rs

\* mutant: creditor.balance += amount
ApplyTransferBothAdded(bs, debtor, creditor, amount) ==
    LET afterDebtor == [bs EXCEPT ![debtor].balance = @ + amount]
    IN  [afterDebtor EXCEPT ![creditor].balance = @ + amount]

\* debtor.balance += amount; creditor.balance -= amount, on the records at
\* the first and the last place of the sorted array (one object when the
\* array holds one element)
ApplyTransfer(bs, debtor, creditor, amount) ==
    LET afterDebtor == [bs EXCEPT ![debtor].balance = @ + amount]
    IN  [afterDebtor EXCEPT ![creditor].balance = @ - amount]

\* mutant: results is not created anew by a call
ComputeBalancesKeepsResults ==
    /\ pc = "start"
    /\ IF participantCount = 0
       THEN /\ pc' = "done"
            /\ UNCHANGED balances
       ELSE /\ pc' = "loop"
            /\ balances' = InitialBalances
    /\ results' = results
    /\ loopCount' = 0
    /\ UNCHANGED <<uiVars, previous>>

\* mutant: no early return on an empty participant list
ComputeBalancesNoGuard ==
    /\ pc = "start"
    /\ pc' = "loop"
    /\ balances' = InitialBalances
    /\ results' = <<>>
    /\ loopCount' = 0
    /\ UNCHANGED <<uiVars, previous>>

\* the guard on an empty list, the totals and the working copy
ComputeBalances ==
    /\ pc = "start"
    /\ IF participantCount = 0
       THEN /\ pc' = "done"
            /\ UNCHANGED balances
       ELSE /\ pc' = "loop"
            /\ balances' = InitialBalances
    /\ results' = <<>>
    /\ loopCount' = 0
    /\ UNCHANGED <<uiVars, previous>>

\* one pass through the body of while (loopCount < 100); reading balances[0]
\* of an empty array gives undefined, whose .balance raises a TypeError
LoopIteration ==
    /\ pc = "loop"
    /\ loopCount < LoopLimit
    /\ IF balances = <<>>
       THEN /\ pc' = "raised"
            /\ UNCHANGED <<balances, results, loopCount>>
       ELSE \E ends \in sort(balances) :
              LET debtor == balances[ends[1]]
                  creditor == balances[ends[2]]
                  amount == TransferAmount(debtor, creditor)
              IN  IF IsSettled(debtor, creditor)
                  THEN /\ pc' = "done"
                       /\ UNCHANGED <<balances, results, loopCount>>
                  ELSE /\ results' = Push(results, debtor, creditor, amount)
                       /\ balances' = ApplyTransfer(balances, ends[1], ends[2], amount)
                       /\ loopCount' = loopCount + 1
                       /\ pc' = "loop"
    /\ UNCHANGED <<uiVars, previous>>

\* the while condition fails: return results
LoopEnd ==
    /\ pc = "loop"
    /\ ~(loopCount < LoopLimit)
    /\ pc' = "done"
    /\ UNCHANGED <<balances, results, loopCount, uiVars, previous>>

\* the participant lists the computation is started on: ids unique
CalcParticipants ==
    { [i \in 1..n |-> [id |-> toString(i), name |-> <<"A">>]] : n \in 0..MaxParticipants }

\* the expense lists it is started on, for n participants: amounts > 0, the
\* payer id n + 1 names no participant
CalcExpenses(n) ==
    { [i \in 1..Len(f) |-> [id |-> toString(i),
                            payerId |-> toString(f[i].payer),
                            amount |-> f[i].amount]] :
        f \in UNION { [1..k -> [payer : 1..(n + 1), amount : 1..MaxAmount]] :
                        k \in 0..MaxExpenses } }

InitCalc ==
    /\ step = 3
    /\ participants \in CalcParticipants
    /\ expenses \in CalcExpenses(Len(participants))
    /\ newExpensePayer = <<>>
    /\ now = 0
    /\ pc = "start"
    /\ balances = <<>>
    /\ results = <<>>
    /\ loopCount = 0
    /\ previous = <<>>

NextCalc ==
    \/ ComputeBalances
    \/ LoopIteration
    \/ LoopEnd

SpecCalc == InitCalc /\ [][NextCalc]_vars

\* the computation started on a full participant list and expenses of a
\* wider range of amounts, which give settlements of unequal amounts
CalcExpensesWide(n) ==
    { [i \in 1..Len(f) |-> [id |-> toString(i),
                            payerId |-> toString(f[i].payer),
                            amount |-> f[i].amount]] :
        f \in UNION { [1..k -> [payer : 1..(n + 1), amount : 1..MaxWideAmount]] :
                        k \in 0..MaxExpenses } }

InitCalcWide ==
    /\ step = 3
    /\ participants \in { ps \in CalcParticipants : Len(ps) = MaxParticipants }
    /\ expenses \in CalcExpensesWide(Len(participants))
    /\ newExpensePayer = <<>>
    /\ now = 0
    /\ pc = "start"
    /\ balances = <<>>
    /\ results = <<>>
    /\ loopCount = 0
    /\ previous = <<>>

SpecCalcWide == InitCalcWide /\ [][NextCalc]_vars

\* the computation is synchronous: once started it runs to its return
FairSpecCalc == SpecCalc /\ WF_vars(NextCalc)

-----------------------------------------------------------------------------
(* The computation on an engine whose Array.prototype.sort is stable (as    *)
(* ECMAScript 2019 requires), called again on the same lists.  Here         *)
(* `balances` is the array itself, in the order the sort left it.           *)

\* x put behind the elements of the ascending array that are not greater
RECURSIVE InsertStable(_, _)
InsertStable(sorted, x) ==
    IF sorted = <<>> THEN <<x>>
    ELSE IF sorted[Len(sorted)].balance <= x.balance THEN Append(sorted, x)
         ELSE Append(InsertStable(SubSeq(sorted, 1, Len(sorted) - 1), x),
                     sorted[Len(sorted)])

\* balances.sort((a, b) => a.balance - b.balance), equal balances keeping
\* their order
RECURSIVE sortStable(_)
sortStable(bs) ==
    IF bs = <<>> THEN <<>>
    ELSE InsertStable(sortStable(SubSeq(bs, 1, Len(bs) - 1)), bs[Len(bs)])

\* one pass through the loop body, the array sorted in place
LoopIterationStable ==
    /\ pc = "loop"
    /\ loopCount < LoopLimit
    /\ IF balances = <<>>
       THEN /\ pc' = "raised"
            /\ UNCHANGED <<balances, results, loopCount>>
       ELSE LET sorted == sortStable(balances)
                debtor == sorted[1]
                creditor == sorted[Len(sorted)]
                amount == TransferAmount(debtor, creditor)
            IN  IF IsSettled(debtor, creditor)
                THEN /\ pc' = "done"
                     /\ balances' = sorted
                     /\ UNCHANGED <<results, loopCount>>
                ELSE /\ results' = Push(results, debtor, creditor, amount)
                     /\ balances' = ApplyTransfer(sorted, 1, Len(sorted), amount)
                     /\ loopCount' = loopCount + 1
                     /\ pc' = "loop"
    /\ UNCHANGED <<uiVars, previous>>

\* the useMemo callback is called again on the same participants and
\* expenses; what the first call returned is kept for comparison
Recompute ==
    /\ pc = "done"
    /\ previous = <<>>
    /\ previous' = <<results>>
    /\ pc' = "start"
    /\ UNCHANGED <<balances, results, loopCount, uiVars>>

NextStable ==
    \/ ComputeBalances
    \/ LoopIterationStable
    \/ LoopEnd
    \/ Recompute

SpecStable == InitCalc /\ [][NextStable]_vars

\* a first call that keeps equal balances in their order, then a second
\* call on the same lists that may take them in any order
FirstCall ==
    /\ previous = <<>>
    /\ NextStable

SecondCall ==
    /\ previous # <<>>
    /\ NextCalc

NextTwice ==
    \/ FirstCall
    \/ SecondCall

SpecTwice == InitCalc /\ [][NextTwice]_vars

-----------------------------------------------------------------------------
(* Vocabulary of the properties *)

PayersExist == \A i \in 1..Len(expenses) : expenses[i].payerId \in ParticipantIds

UniqueIds ==
    \A i, j \in 1..Len(participants) : i # j => participants[i].id # participants[j].id

\* total of the settlements a participant sends / receives
Sent(id) == SumAmounts(SelectSeq(results, LAMBDA r : r.fromId = id))
Received(id) == SumAmounts(SelectSeq(results, LAMBDA r : r.toId = id))

\* a participant's balance after the returned settlements are carried out
FinalBalance(id) == InitialBalance(id) + Sent(id) - Received(id)

RECURSIVE SumBalances(_)
SumBalances(bs) ==
    IF bs = <<>> THEN 0 ELSE SumBalances(SubSeq(bs, 1, Len(bs) - 1)) + bs[Len(bs)].balance

\* the computation has returned
Returned == pc = "done"

\* it returned through the break of the stop condition: the loop was entered
\* and left before the counter reached the ceiling
ReturnedByTolerance == pc = "done" /\ participantCount > 0 /\ loopCount < LoopLimit

-----------------------------------------------------------------------------
(* Properties of the settlement computation, checked under SpecCalc *)

\* C1: settlement correctness.  With unique ids and every payer a
\* participant, when the computation returns every participant's initial
\* balance plus what they send minus what they receive is within the
\* tolerance of zero, whatever the order of equal balances.
C1_SettlementCorrect ==
    (Returned /\ UniqueIds /\ PayersExist) =>
        \A i \in 1..participantCount :
            Abs(FinalBalance(participants[i].id)) < Tolerance * participantCount

C1_Witness ==
    /\ Returned /\ UniqueIds /\ PayersExist
    /\ participantCount = 3
    /\ Len(results) >= 1
    /\ \E i \in 1..participantCount : FinalBalance(participants[i].id) # 0

\* C2: bounded output size.  A run that leaves the loop through the stop
\* condition returns at most participantCount - 1 settlements.
C2_BoundedOutput ==
    ReturnedByTolerance => Len(results) <= participantCount - 1

C2_Witness ==
    /\ ReturnedByTolerance
    /\ participantCount = 3
    /\ Len(results) = participantCount - 1

\* C3: transfer direction.  Every emitted settlement goes from a participant
\* whose initial balance is negative to one whose initial balance is
\* positive; so no settlement is from a participant to itself and nobody is
\* sender in one settlement and receiver in another.
C3_Direction ==
    /\ \A k \in 1..Len(results) :
          /\ results[k].fromId \in ParticipantIds
          /\ results[k].toId \in ParticipantIds
          /\ InitialBalance(results[k].fromId) < 0
          /\ InitialBalance(results[k].toId) > 0
          /\ results[k].fromId # results[k].toId
    /\ \A k, m \in 1..Len(results) : results[k].fromId # results[m].toId

C3_Witness ==
    /\ Returned
    /\ Len(results) >= 1
    /\ ~PayersExist
    /\ participantCount = 3

\* C6: termination.  On every input the loop body runs at most LoopLimit
\* times, nothing is raised, at most LoopLimit settlements are returned, and
\* the computation returns.
C6_Termination ==
    /\ [](/\ loopCount <= LoopLimit
          /\ Len(results) <= loopCount
          /\ Len(results) <= LoopLimit
          /\ pc # "raised")
    /\ <>Returned

C6_Witness ==
    /\ Returned
    /\ ~PayersExist
    /\ loopCount = LoopLimit
    /\ Len(results) >= 1

\* C7: every emitted settlement has an amount > 0; a pass whose transfer
\* amount is 0 or negative emits nothing.
C7_PositiveAmounts ==
    \A k \in 1..Len(results) : results[k].amount > 0

C7_Witness ==
    /\ pc = "loop"
    /\ Len(results) >= 1
    /\ loopCount > Len(results)

\* C8: balance conservation.  When every payer is a participant the initial
\* balances sum to 0, and on every input a pass through the loop leaves the
\* sum of the working balances unchanged.
C8_Conservation ==
    /\ []((pc = "loop" /\ loopCount = 0 /\ PayersExist) => SumBalances(balances) = 0)
    /\ [][pc = "loop" => SumBalances(balances') = SumBalances(balances)]_vars

C8_Witness ==
    /\ pc = "loop"
    /\ PayersExist
    /\ loopCount >= 1
    /\ SumBalances(balances) = 0
    /\ \E i \in 1..Len(balances) : balances[i].balance # 0

\* C10: single payer.  With n >= 2 participants and every expense paid by one
\* participant P, total X with X/n >= 1, the result is n - 1 settlements, one
\* from each other participant, each to P and of amount X/n.
SinglePayer(P) ==
    /\ P \in ParticipantIds
    /\ expenses # <<>>
    /\ \A i \in 1..Len(expenses) : expenses[i].payerId = P

AllWithinTolerance ==
    \A i \in 1..participantCount :
        Abs(InitialBalance(participants[i].id)) < Tolerance * participantCount

C11_NoOp ==
    /\ participantCount = 0 => (pc \in {"start", "done"} /\ balances = <<>>)
    /\ (Returned /\ (participantCount = 0 \/ expenses = <<>> \/ AllWithinTolerance))
          => results = <<>>

C11_Witness ==
    /\ Returned
    /\ participantCount >= 2
    /\ expenses # <<>>
    /\ AllWithinTolerance
    /\ \E i \in 1..participantCount : InitialBalance(participants[i].id) # 0
    /\ results = <<>>


\* a settlement has been added to the list: it is the last one, behind the
\* earlier ones, from a participant whose working balance was a smallest to
\* one whose working balance was a largest
EmittedFromSmallestToLargest ==
    Len(results') > Len(results) =>
        /\ Len(results') = Len(results) + 1
        /\ SubSeq(results', 1, Len(results)) = results
        /\ \E d, c \in 1..Len(balances) :
              /\ balances[d].id = results'[Len(results')].fromId
              /\ balances[c].id = results'[Len(results')].toId
              /\ \A j \in 1..Len(balances) :
                    /\ balances[d].balance <= balances[j].balance
                    /\ balances[j].balance <= balances[c].balance

\* C16: largest imbalances first.  Each emitted settlement goes from the
\* participant with the currently smallest working balance to the one with
\* the currently largest, and the amounts in the list, read in order, never
\* increase.
C16_LargestFirst ==
    /\ [][EmittedFromSmallestToLargest]_vars
    /\ [](\A k \in 1..(Len(results) - 1) :
             results[k].amount >= results[k + 1].amount)

C16_Witness ==
    /\ Returned
    /\ Len(results) = 2
    /\ results[1].fromId # results[2].fromId
    /\ results[1].amount > results[2].amount

\* a pass that emits a settlement moves no working balance across zero
NoBalanceCrossesZero ==
    Len(results') > Len(results) =>
        \A j \in 1..Len(balances) :
            /\ balances[j].balance <= 0 => balances'[j].balance <= 0
            /\ balances[j].balance >= 0 => balances'[j].balance >= 0

\* C17: no overshoot.  At every point of the loop, dangling payers included,
\* what a participant has been told to send is at most the absolute value
\* of their initial balance if that is negative (nothing otherwise), what
\* they have been told to receive is at most their initial balance if that
\* is positive (nothing otherwise), and an emitted transfer moves no working
\* balance across zero.
C17_NoOvershoot ==
    /\ [](\A i \in 1..participantCount :
             LET id == participants[i].id
             IN  /\ Sent(id) <= (IF InitialBalance(id) < 0
                                 THEN Abs(InitialBalance(id)) ELSE 0)
                 /\ Received(id) <= (IF InitialBalance(id) > 0
                                     THEN InitialBalance(id) ELSE 0))
    /\ [][NoBalanceCrossesZero]_vars

C17_Witness ==
    /\ Returned
    /\ ~PayersExist
    /\ \E i, j \in 1..participantCount :
          /\ InitialBalance(participants[i].id) > 0
          /\ Received(participants[i].id) = InitialBalance(participants[i].id)
          /\ Sent(participants[j].id) > 0
          /\ Sent(participants[j].id) < Abs(InitialBalance(participants[j].id))

\* the total of the expenses whose payer is no participant
Unattributed ==
    SumAmounts(SelectSeq(expenses, LAMBDA e : e.payerId \notin ParticipantIds))

\* the working balances sum to minus the unattributed total (balances are in
\* units of 1 / participantCount), and no step raises an error
DanglingBalancesSum ==
    /\ pc # "raised"
    /\ pc \in {"loop", "done"} =>
          SumBalances(balances) = - (participantCount * Unattributed)

\* C15 as stated: dangling payer.  With an expense whose payer is no
\* participant the working balances sum to minus the unattributed total
\* throughout the run; if that total is >= participantCount the loop runs
\* exactly LoopLimit passes and the list is returned without error.
C15_DanglingPayer ==
    /\ DanglingBalancesSum
    /\ (Returned /\ ~PayersExist /\ Unattributed >= participantCount)
          => loopCount = LoopLimit

\* C15 amended: the same for a computation on at least one participant
\* (with no participant the computation returns before the loop).
C15_DanglingPayerOfParticipants ==
    /\ DanglingBalancesSum
    /\ (Returned /\ ~PayersExist /\ Unattributed >= participantCount
                 /\ participantCount >= 1)
          => loopCount = LoopLimit

C15_Witness ==
    /\ Returned
    /\ ~PayersExist
    /\ participantCount = 3
    /\ Unattributed >= participantCount
    /\ loopCount = LoopLimit
    /\ SumBalances(balances) < 0

-----------------------------------------------------------------------------
(* Properties of repeated computation, checked under SpecStable / SpecTwice *)

FinalBalanceAfter(rs, id) ==
    InitialBalance(id)
        + SumAmounts(SelectSeq(rs, LAMBDA r : r.fromId = id))
        - SumAmounts(SelectSeq(rs, LAMBDA r : r.toId = id))

\* the number of participants left with the balance b by the list rs
LeftWith(rs, b) ==
    Cardinality({ i \in 1..participantCount :
                    FinalBalanceAfter(rs, participants[i].id) = b })

\* C14 as stated: tie-break independence.  Whichever participants of equal
\* smallest (or largest) balance a call chooses, it leaves every participant
\* with the same final balance as the call that takes them in their order.
C14_SameFinalBalances ==
    (Returned /\ previous # <<>>) =>
        \A i \in 1..participantCount :
            FinalBalanceAfter(results, participants[i].id)
                = FinalBalanceAfter(previous[1], participants[i].id)

\* C14 amended: whichever tied participants a call chooses, it leaves the
\* same final balances up to who holds them: every value is the final
\* balance of as many participants as after the call that takes them in
\* their order.
C14_SameFinalBalancesUpToOrder ==
    (Returned /\ previous # <<>>) =>
        \A i \in 1..participantCount :
            LET b == FinalBalanceAfter(results, participants[i].id)
            IN  LeftWith(results, b) = LeftWith(previous[1], b)

C14_Witness ==
    /\ Returned
    /\ previous # <<>>
    /\ UniqueIds
    /\ PayersExist
    /\ \E i \in 1..participantCount :
          FinalBalanceAfter(results, participants[i].id)
              # FinalBalanceAfter(previous[1], participants[i].id)

-----------------------------------------------------------------------------
(* Properties of the UI, checked under Spec *)

\* C4: payer exists at creation.  Whenever addExpense appends an expense,
\* its payerId is the id of a participant in the list at that moment.
C4_PayerExistsAtCreation ==
    [][Len(expenses') > Len(expenses) =>
          expenses'[Len(expenses')].payerId \in ParticipantIds]_vars

\* C5: payer exists at computation.  Whenever the settlement view is shown
\* (step = 3), every expense's payerId is the id of a current participant.
C5_PayerExistsAtComputation ==
    step = 3 => PayersExist

\* C9: expense entry and the settlement view are only shown with at least
\* two participants.
C9_TwoParticipants ==
    step \in {2, 3} => Len(participants) >= 2

C9_Witness ==
    /\ step = 3
    /\ Len(participants) = 2
    /\ ~PayersExist

\* C13: expense validation.  Every stored expense has an amount > 0.  The
\* expense list changes only by + Add appending one expense whose amount is
\* the positive number parsed from the amount text, with a payer selected
\* (any other + Add leaves the list as it is), by removeExpense taking
\* expenses out at step 2, or by Reset All emptying it; the expenses that
\* stay are unmodified and in order.
ExpenseAccepted ==
    /\ step = 2
    /\ newExpensePayer # <<>>
    /\ Len(expenses') = Len(expenses) + 1
    /\ SubSeq(expenses', 1, Len(expenses)) = expenses
    /\ expenses'[Len(expenses')].payerId = newExpensePayer
    /\ \E text \in AmountTexts :
          /\ ~isNaN(parseFloat(text))
          /\ parseFloat(text).val > 0
          /\ expenses'[Len(expenses')].amount = parseFloat(text).val

ExpenseRemoved ==
    /\ step = 2
    /\ \E i \in 1..Len(expenses) :
          expenses' = SelectSeq(expenses, LAMBDA e : e.id # expenses[i].id)

ExpensesReset ==
    /\ step = 3
    /\ step' = 1
    /\ expenses' = <<>>

C13_ExpenseValidation ==
    /\ [](\A i \in 1..Len(expenses) : expenses[i].amount > 0)
    /\ [][ExpenseAccepted \/ ExpenseRemoved \/ ExpensesReset]_expenses

C13_Witness ==
    /\ step = 2
    /\ Len(expenses) = 2
    /\ expenses[1].amount = 6
    /\ expenses[2].amount = 3

====
